---- MODULE Spec2Model ----
(***************************************************************************)
(* Model of the SRD wire messages ACCEPT and DELEGATE of sardine:          *)
(*   sardine/src/message_types/srd_accept.rs                               *)
(*   sardine/src/message_types/srd_delegate.rs                             *)
(* A byte is an integer 0..255, a buffer a sequence of bytes.  One run of  *)
(* the model builds one message with new, optionally replaces its MAC,     *)
(* serializes it with write_to, lets the bytes be altered or cut short in   *)
(* flight and decodes them with read_from; a DELEGATE is then decrypted.    *)
(***************************************************************************)
EXTENDS Integers, Sequences, FiniteSets, TLC

VARIABLES
    feature,     \* the cipher compiled in: "aes" or "chacha20"
    keys,        \* integrity_key, delegation_key and iv of the session
    pc,          \* position of the run
    kind,        \* the message the run builds: "accept" or "delegate"
    args,        \* the arguments given to new
    built,       \* the Result of new, later changed by set_mac
    inner0,      \* write_inner_buffer of the message new returned
    wire,        \* the bytes write_to produced, as altered in flight
    tampered,    \* the bytes were altered or cut short in flight
    recvKind,    \* the decoder applied to the wire
    recv,        \* the Result of read_from
    plain,       \* the Result of get_data
    resp         \* what the responder did with a DELEGATE

vars == <<feature, keys, pc, kind, args, built, inner0, wire, tampered,
          recvKind, recv, plain, resp>>

\* ------------------------------------------------------------------ bounds
MaxKeySize == 3        \* largest key_size argument given to SrdAccept::new
MaxPkLen == 3          \* longest public key given to SrdAccept::new
MaxPayloadLen == 25    \* longest blob payload given to SrdDelegate::new

\* --------------------------------------------------------------- constants
SRD_SIGNATURE == 473297959      \* 0x1C35F427
SRD_ACCEPT_MSG_ID == 3
SRD_DELEGATE_MSG_ID == 5
SRD_FLAG_MAC == 1
SRD_FLAG_CBT == 2
SRD_BLOB_MAGIC == 1279414867    \* 0x4C425253
MacLen == 32                    \* [u8; 32]
AesBlock == 16
XChaChaIvLen == 24
TestKeySize == 256               \* the key_size of the test accept_encoding

\* ------------------------------------------------------------ byte helpers
Byte == 0..255

Fill(n, b) == [i \in 1..n |-> b]

\* n bytes that depend on a seed and on the position
Pattern(n, seed) == [i \in 1..n |-> (seed + 3 * i) % 256]

\* byteorder::WriteBytesExt::write_u16::<LittleEndian>
write_u16(v) == <<v % 256, (v \div 256) % 256>>

\* byteorder::WriteBytesExt::write_u32::<LittleEndian>
write_u32(v) ==
    <<v % 256, (v \div 256) % 256, (v \div 65536) % 256, (v \div 16777216) % 256>>

\* byteorder::ReadBytesExt::read_u16::<LittleEndian> at cursor position pos
\* (0-based), the bytes being there
read_u16(buf, pos) == buf[pos + 1] + 256 * buf[pos + 2]

\* byteorder::ReadBytesExt::read_u32::<LittleEndian> at cursor position pos
read_u32(buf, pos) ==
    buf[pos + 1] + 256 * buf[pos + 2] + 65536 * buf[pos + 3] + 16777216 * buf[pos + 4]

\* the n bytes read_exact copies from cursor position pos
Slice(buf, pos, n) == SubSeq(buf, pos + 1, pos + n)

\* a read of n bytes at cursor position pos succeeds iff the bytes are there
CanRead(buf, pos, n) == pos + n <= Len(buf)

BitOr(flags, bit) == IF (flags \div bit) % 2 = 1 THEN flags ELSE flags + bit

Xor(a, b) ==
    LET bit(p) == ((a \div p) + (b \div p)) % 2
    IN  bit(1) + 2 * bit(2) + 4 * bit(4) + 8 * bit(8) + 16 * bit(16)
        + 32 * bit(32) + 64 * bit(64) + 128 * bit(128)

Ok(v) == [ok |-> TRUE, val |-> v]
Err(e) == [ok |-> FALSE, err |-> e]

\* sum of (2i + 1) * s[i] over lo..hi, modulo 256
RECURSIVE SumBytes(_, _, _)
SumBytes(s, lo, hi) ==
    IF lo > hi THEN 0
    ELSE IF lo = hi THEN ((2 * lo + 1) * s[lo]) % 256
    ELSE LET mid == (lo + hi) \div 2
         IN  (SumBytes(s, lo, mid) + SumBytes(s, mid + 1, hi)) % 256

\* HMAC-SHA256 (external primitive): a keyed 32-byte digest of the message
hmac_sha256(key, msg) ==
    LET h == (SumBytes(key, 1, Len(key)) + 7 * SumBytes(msg, 1, Len(msg)) + Len(msg)) % 256
    IN  [i \in 1..MacLen |-> (h + 5 * i) % 256]

\* --------------------------------------------------------------- SrdAccept

\* message_types::expand_start: grow the vector at its start to new_size
expand_start(buffer, new_size) ==
    IF new_size > Len(buffer)
    THEN Fill(new_size - Len(buffer), 0) \o buffer
    ELSE buffer

SrdAccept_write_inner_buffer(m) ==
    write_u32(m.signature) \o <<m.packet_type>> \o <<m.seq_num>> \o write_u16(m.flags)
        \o write_u32(m.cipher) \o write_u16(m.key_size) \o write_u16(m.reserved)
        \o m.public_key \o m.nonce \o m.cbt

\* a write_to that puts the MAC in front of the inner bytes
SrdAccept_write_to_mac_first(m) == m.mac \o SrdAccept_write_inner_buffer(m)

SrdAccept_write_to(m) == SrdAccept_write_inner_buffer(m) \o m.mac

SrdAccept_set_mac(m, mac) == [m EXCEPT !.mac = mac]

\* a read_from that fills cbt before nonce
SrdAccept_read_from_swapped(buffer) ==
    IF ~CanRead(buffer, 0, 16) THEN Err("Io")
    ELSE
      LET key_size == read_u16(buffer, 12)
      IN  IF ~CanRead(buffer, 16, key_size + 3 * MacLen) THEN Err("Io")
          ELSE Ok([signature   |-> read_u32(buffer, 0),
                   packet_type |-> buffer[5],
                   seq_num     |-> buffer[6],
                   flags       |-> read_u16(buffer, 6),
                   cipher      |-> read_u32(buffer, 8),
                   key_size    |-> key_size,
                   reserved    |-> read_u16(buffer, 14),
                   public_key  |-> Slice(buffer, 16, key_size),
                   cbt         |-> Slice(buffer, 16 + key_size, MacLen),
                   nonce       |-> Slice(buffer, 16 + key_size + MacLen, MacLen),
                   mac         |-> Slice(buffer, 16 + key_size + 2 * MacLen, MacLen)])

SrdAccept_read_from(buffer) ==
    IF ~CanRead(buffer, 0, 16) THEN Err("Io")
    ELSE
      LET key_size == read_u16(buffer, 12)
      IN  IF ~CanRead(buffer, 16, key_size + 3 * MacLen) THEN Err("Io")
          ELSE Ok([signature   |-> read_u32(buffer, 0),
                   packet_type |-> buffer[5],
                   seq_num     |-> buffer[6],
                   flags       |-> read_u16(buffer, 6),
                   cipher      |-> read_u32(buffer, 8),
                   key_size    |-> key_size,
                   reserved    |-> read_u16(buffer, 14),
                   public_key  |-> Slice(buffer, 16, key_size),
                   nonce       |-> Slice(buffer, 16 + key_size, MacLen),
                   cbt         |-> Slice(buffer, 16 + key_size + MacLen, MacLen),
                   mac         |-> Slice(buffer, 16 + key_size + 2 * MacLen, MacLen)])

\* SrdPacket::compute_mac for ACCEPT: HMAC over the inner bytes of the previous
\* messages followed by the inner bytes of this one, stored with set_mac
SrdAccept_compute_mac(m, previous_messages, integrity_key) ==
    SrdAccept_set_mac(m,
        hmac_sha256(integrity_key, previous_messages \o SrdAccept_write_inner_buffer(m)))

NoCbt == <<>>

\* a new that forgets expand_start and keeps the public key as given
SrdAccept_new_unpadded(seq_num, cipher, key_size, public_key, nonce, cbt_opt, previous_messages, integrity_key) ==
    LET cbt == IF cbt_opt = NoCbt THEN Fill(MacLen, 0) ELSE cbt_opt
        flags == IF cbt_opt = NoCbt THEN SRD_FLAG_MAC ELSE BitOr(SRD_FLAG_MAC, SRD_FLAG_CBT)
        response == [signature   |-> SRD_SIGNATURE,
                     packet_type |-> SRD_ACCEPT_MSG_ID,
                     seq_num     |-> seq_num,
                     flags       |-> flags,
                     cipher      |-> cipher,
                     reserved    |-> 0,
                     key_size    |-> key_size,
                     public_key  |-> public_key,
                     nonce       |-> nonce,
                     cbt         |-> cbt,
                     mac         |-> Fill(MacLen, 0)]
    IN  Ok(SrdAccept_compute_mac(response, previous_messages, integrity_key))

SrdAccept_new(seq_num, cipher, key_size, public_key, nonce, cbt_opt, previous_messages, integrity_key) ==
    LET pk == expand_start(public_key, key_size)
        cbt == IF cbt_opt = NoCbt THEN Fill(MacLen, 0) ELSE cbt_opt
        flags == IF cbt_opt = NoCbt THEN SRD_FLAG_MAC ELSE BitOr(SRD_FLAG_MAC, SRD_FLAG_CBT)
        response == [signature   |-> SRD_SIGNATURE,
                     packet_type |-> SRD_ACCEPT_MSG_ID,
                     seq_num     |-> seq_num,
                     flags       |-> flags,
                     cipher      |-> cipher,
                     reserved    |-> 0,
                     key_size    |-> key_size,
                     public_key  |-> pk,
                     nonce       |-> nonce,
                     cbt         |-> cbt,
                     mac         |-> Fill(MacLen, 0)]
    IN  Ok(SrdAccept_compute_mac(response, previous_messages, integrity_key))

SrdAccept_has_cbt(m) == (m.flags \div SRD_FLAG_CBT) % 2 # 0

\* ---------------------------------------------------------- symmetric cipher
\* The primitives of aes_frast and chacha are external: they are modelled as a
\* keyed block permutation in CBC mode and as a keyed stream that is XORed in.

\* aes_core::setkey_enc_auto: the encryption key schedule of a 32-byte key
setkey_enc_auto(key) == [i \in 1..AesBlock |-> Xor(key[i], key[i + AesBlock])]

\* aes_core::setkey_dec_auto: the decryption key schedule (the reversed one)
setkey_dec_auto(key) ==
    [i \in 1..AesBlock |-> Xor(key[AesBlock + 1 - i], key[2 * AesBlock + 1 - i])]

XorBlock(a, b) == [i \in 1..AesBlock |-> Xor(a[i], b[i])]

block_enc(w_keys, x) ==
    LET z == [i \in 1..AesBlock |-> (Xor(x[i], w_keys[i]) + i) % 256]
    IN  [i \in 1..AesBlock |-> z[(i % AesBlock) + 1]]

block_dec(w_keys, y) ==
    LET z == [i \in 1..AesBlock |-> y[((i + AesBlock - 2) % AesBlock) + 1]]
    IN  [i \in 1..AesBlock |-> Xor((z[i] + 256 - i) % 256, w_keys[AesBlock + 1 - i])]

BlockAt(data, k) == SubSeq(data, (k - 1) * AesBlock + 1, k * AesBlock)

\* aes_with_operation_mode::cbc_enc over the whole blocks of data
RECURSIVE cbc_enc_from(_, _, _, _)
cbc_enc_from(data, w_keys, prev, k) ==
    IF k * AesBlock > Len(data) THEN <<>>
    ELSE LET c == block_enc(w_keys, XorBlock(BlockAt(data, k), prev))
         IN  c \o cbc_enc_from(data, w_keys, c, k + 1)

cbc_enc(data, w_keys, iv) == cbc_enc_from(data, w_keys, iv, 1)

RECURSIVE cbc_dec_from(_, _, _, _)
cbc_dec_from(data, w_keys, prev, k) ==
    IF k * AesBlock > Len(data) THEN <<>>
    ELSE XorBlock(block_dec(w_keys, BlockAt(data, k)), prev)
            \o cbc_dec_from(data, w_keys, BlockAt(data, k), k + 1)

\* aes_with_operation_mode::cbc_dec over the whole blocks of data
cbc_dec(data, w_keys, iv) == cbc_dec_from(data, w_keys, iv, 1)

\* ChaCha::new_xchacha20(key, iv) followed by xor_read: XOR with the key stream
xchacha20_xor(key, iv, data) ==
    [i \in 1..Len(data) |->
        Xor(data[i], (key[((i - 1) % MacLen) + 1]
                      + 2 * iv[((i - 1) % XChaChaIvLen) + 1] + i) % 256)]

\* an encrypt_data without the length check, which encrypts the whole blocks
encrypt_data_aes_unchecked(data, key, iv) ==
    Ok(cbc_enc(data, setkey_enc_auto(key), SubSeq(iv, 1, AesBlock)))

\* #[cfg(not(feature = "chacha20"))] fn encrypt_data
encrypt_data_aes(data, key, iv) ==
    IF Len(data) % AesBlock # 0 THEN Err("InvalidDataLength")
    ELSE Ok(cbc_enc(data, setkey_enc_auto(key), SubSeq(iv, 1, AesBlock)))

\* a decrypt_data that sets up the encryption key schedule
decrypt_data_aes_enc_keys(data, key, iv) ==
    IF Len(data) % AesBlock # 0 THEN Err("InvalidDataLength")
    ELSE Ok(cbc_dec(data, setkey_enc_auto(key), SubSeq(iv, 1, AesBlock)))

\* #[cfg(not(feature = "chacha20"))] pub fn decrypt_data
decrypt_data_aes(data, key, iv) ==
    IF Len(data) % AesBlock # 0 THEN Err("InvalidDataLength")
    ELSE Ok(cbc_dec(data, setkey_dec_auto(key), SubSeq(iv, 1, AesBlock)))

\* #[cfg(feature = "chacha20")] fn encrypt_data
encrypt_data_chacha20(data, key, iv) ==
    Ok(xchacha20_xor(key, SubSeq(iv, 1, XChaChaIvLen), data))

\* #[cfg(feature = "chacha20")] fn decrypt_data
decrypt_data_chacha20(data, key, iv) == encrypt_data_chacha20(data, key, iv)

\* ------------------------------------------------------------- SrdDelegate

\* the cipher the build selects with the feature "chacha20"
encrypt_data(data, key, iv) ==
    IF feature = "chacha20" THEN encrypt_data_chacha20(data, key, iv)
    ELSE encrypt_data_aes(data, key, iv)

decrypt_data(data, key, iv) ==
    IF feature = "chacha20" THEN decrypt_data_chacha20(data, key, iv)
    ELSE decrypt_data_aes(data, key, iv)

\* SrdBlob::write_to: magic, kind, payload
SrdBlob_write_to(blob) ==
    write_u32(SRD_BLOB_MAGIC) \o write_u32(blob.kind) \o blob.payload

\* SrdBlob::read_from
SrdBlob_read_from(buffer) ==
    IF ~CanRead(buffer, 0, 8) THEN Err("Io")
    ELSE IF Slice(buffer, 0, 4) # write_u32(SRD_BLOB_MAGIC) THEN Err("Malformed")
    ELSE Ok([kind |-> read_u32(buffer, 4), payload |-> Slice(buffer, 8, Len(buffer) - 8)])

SrdDelegate_write_inner_buffer(m) ==
    write_u32(m.signature) \o <<m.packet_type>> \o <<m.seq_num>> \o write_u16(m.flags)
        \o write_u32(m.size) \o m.encrypted_blob

SrdDelegate_write_to(m) == SrdDelegate_write_inner_buffer(m) \o m.mac

SrdDelegate_set_mac(m, mac) == [m EXCEPT !.mac = mac]

\* a read_from that tolerates a short read of the MAC: the bytes the buffer
\* lacks stay zero
SrdDelegate_read_from_short_mac(buffer) ==
    IF ~CanRead(buffer, 0, 12) THEN Err("Io")
    ELSE
      LET size == read_u32(buffer, 8)
          have == IF Len(buffer) - (12 + size) < MacLen
                  THEN Len(buffer) - (12 + size) ELSE MacLen
      IN  IF ~CanRead(buffer, 12, size) THEN Err("Io")
          ELSE Ok([signature      |-> read_u32(buffer, 0),
                   packet_type    |-> buffer[5],
                   seq_num        |-> buffer[6],
                   flags          |-> read_u16(buffer, 6),
                   size           |-> size,
                   encrypted_blob |-> Slice(buffer, 12, size),
                   mac            |-> Slice(buffer, 12 + size, have)
                                        \o Fill(MacLen - have, 0)])

\* a read_from that takes the sequence number from the packet-type byte
SrdDelegate_read_from_seq_off(buffer) ==
    IF ~CanRead(buffer, 0, 12) THEN Err("Io")
    ELSE
      LET size == read_u32(buffer, 8)
      IN  IF ~CanRead(buffer, 12, size + MacLen) THEN Err("Io")
          ELSE Ok([signature      |-> read_u32(buffer, 0),
                   packet_type    |-> buffer[5],
                   seq_num        |-> buffer[5],
                   flags          |-> read_u16(buffer, 6),
                   size           |-> size,
                   encrypted_blob |-> Slice(buffer, 12, size),
                   mac            |-> Slice(buffer, 12 + size, MacLen)])

SrdDelegate_read_from(buffer) ==
    IF ~CanRead(buffer, 0, 12) THEN Err("Io")
    ELSE
      LET size == read_u32(buffer, 8)
      IN  IF ~CanRead(buffer, 12, size + MacLen) THEN Err("Io")
          ELSE Ok([signature      |-> read_u32(buffer, 0),
                   packet_type    |-> buffer[5],
                   seq_num        |-> buffer[6],
                   flags          |-> read_u16(buffer, 6),
                   size           |-> size,
                   encrypted_blob |-> Slice(buffer, 12, size),
                   mac            |-> Slice(buffer, 12 + size, MacLen)])

\* SrdPacket::compute_mac for DELEGATE
SrdDelegate_compute_mac(m, previous_messages, integrity_key) ==
    SrdDelegate_set_mac(m,
        hmac_sha256(integrity_key, previous_messages \o SrdDelegate_write_inner_buffer(m)))

\* SrdPacket::verify_mac for DELEGATE: the MAC of the message is the one
\* compute_mac gives for the same transcript and key
SrdDelegate_verify_mac(m, previous_messages, integrity_key) ==
    m.mac = hmac_sha256(integrity_key,
                        previous_messages \o SrdDelegate_write_inner_buffer(m))

\* a new whose size field counts the MAC trailer too
SrdDelegate_new_size_with_mac(seq_num, srd_blob, previous_messages, integrity_key, delegation_key, iv) ==
    LET v_blob == SrdBlob_write_to(srd_blob)
        enc == encrypt_data(v_blob, delegation_key, iv)
    IN  IF ~enc.ok THEN enc
        ELSE LET response == [signature      |-> SRD_SIGNATURE,
                              packet_type    |-> SRD_DELEGATE_MSG_ID,
                              seq_num        |-> seq_num,
                              flags          |-> SRD_FLAG_MAC,
                              size           |-> Len(enc.val) + MacLen,
                              encrypted_blob |-> enc.val,
                              mac            |-> Fill(MacLen, 0)]
             IN  Ok(SrdDelegate_compute_mac(response, previous_messages, integrity_key))

SrdDelegate_new(seq_num, srd_blob, previous_messages, integrity_key, delegation_key, iv) ==
    \* encrypted_blob.len() as u32 loses nothing below 2^32 bytes, and the
    \* blobs of the model are far shorter
    LET v_blob == SrdBlob_write_to(srd_blob)
        enc == encrypt_data(v_blob, delegation_key, iv)
    IN  IF ~enc.ok THEN enc
        ELSE LET response == [signature      |-> SRD_SIGNATURE,
                              packet_type    |-> SRD_DELEGATE_MSG_ID,
                              seq_num        |-> seq_num,
                              flags          |-> SRD_FLAG_MAC,
                              size           |-> Len(enc.val),
                              encrypted_blob |-> enc.val,
                              mac            |-> Fill(MacLen, 0)]
             IN  Ok(SrdDelegate_compute_mac(response, previous_messages, integrity_key))

SrdDelegate_get_data(m, key, iv) ==
    LET buffer == decrypt_data(m.encrypted_blob, key, iv)
    IN  IF ~buffer.ok THEN buffer ELSE SrdBlob_read_from(buffer.val)

\* --------------------------------------------------------------- responder
\* The responder's handling of an inbound DELEGATE (handshake engine, rule 5):
\* frame, check signature and sequence number, verify the MAC over the
\* transcript, and only then decrypt.  events lists what it did, in order.
DELEGATE_SEQ == 4

\* a responder that decrypts the blob before it looks at the MAC
responder_decrypt_first(buffer, previous_messages, integrity_key, delegation_key, iv) ==
    LET r == SrdDelegate_read_from(buffer)
    IN  IF ~r.ok
        THEN [outcome |-> "Malformed", events |-> <<>>, creds |-> r]
        ELSE LET d == SrdDelegate_get_data(r.val, delegation_key, iv)
             IN  IF ~SrdDelegate_verify_mac(r.val, previous_messages, integrity_key)
                 THEN [outcome |-> "MacFailure", events |-> <<"decrypt", "mac_failed">>,
                       creds |-> Err("none")]
                 ELSE [outcome |-> IF d.ok THEN "Ok" ELSE "Malformed",
                       events  |-> <<"decrypt", "mac_verified">>,
                       creds   |-> d]

responder_on_delegate(buffer, previous_messages, integrity_key, delegation_key, iv) ==
    LET r == SrdDelegate_read_from(buffer)
    IN  IF ~r.ok
        THEN [outcome |-> "Malformed", events |-> <<>>, creds |-> r]
        ELSE IF r.val.signature # SRD_SIGNATURE
        THEN [outcome |-> "BadSignature", events |-> <<>>, creds |-> Err("none")]
        ELSE IF r.val.seq_num # DELEGATE_SEQ
        THEN [outcome |-> "Desync", events |-> <<>>, creds |-> Err("none")]
        ELSE IF ~SrdDelegate_verify_mac(r.val, previous_messages, integrity_key)
        THEN [outcome |-> "MacFailure", events |-> <<"mac_failed">>, creds |-> Err("none")]
        ELSE LET d == SrdDelegate_get_data(r.val, delegation_key, iv)
             IN  [outcome |-> IF d.ok THEN "Ok" ELSE "Malformed",
                  events  |-> <<"mac_verified", "decrypt">>,
                  creds   |-> d]

\* ------------------------------------------------------------ input domains
Features == {"aes", "chacha20"}
KeySeeds == {1, 50}
SessionKeys(seed) ==
    [integrity_key  |-> Pattern(MacLen, seed),
     delegation_key |-> Pattern(MacLen, seed + 7),
     iv             |-> Pattern(MacLen, seed + 11)]

AcceptSeqNums == {2, 7}
DelegateSeqNums == {4, 7}
Ciphers == {1, 65538}
KeySizes == (0..MaxKeySize) \cup {TestKeySize}
PublicKeys == {Pattern(n, 9) : n \in 0..MaxPkLen} \cup {Fill(TestKeySize, 0)}
Nonces == {Pattern(MacLen, 40)}
CbtOpts == {NoCbt, Pattern(MacLen, 90)}
Transcripts == {<<>>, <<39, 244, 53, 28, 1, 0, 0, 0>>}
Blobs == {[kind |-> 1, payload |-> Pattern(n, 100)] : n \in 0..MaxPayloadLen}
MacChoices == {Fill(MacLen, 170)}
TamperPositions == {1, 5, 6, 9, 13, 15}
TamperValues == {0, 1, 255}

None == Err("none")
NoResp == [outcome |-> "none", events |-> <<>>, creds |-> None]

\* ------------------------------------------------------------------- state
Init ==
    /\ feature \in Features
    /\ \E seed \in KeySeeds : keys = SessionKeys(seed)
    /\ pc = "start"
    /\ kind = "none"
    /\ args = [seq_num |-> 0]
    /\ built = None
    /\ inner0 = <<>>
    /\ wire = <<>>
    /\ tampered = FALSE
    /\ recvKind = "none"
    /\ recv = None
    /\ plain = None
    /\ resp = NoResp

\* SrdAccept::new(seq_num, cipher, key_size, public_key, nonce, cbt_opt, ...)
AcceptNew ==
    /\ pc = "start"
    /\ \E seq_num \in AcceptSeqNums, cipher \in Ciphers, key_size \in KeySizes,
          public_key \in PublicKeys, nonce \in Nonces, cbt_opt \in CbtOpts,
          previous_messages \in Transcripts :
          LET r == SrdAccept_new(seq_num, cipher, key_size, public_key, nonce, cbt_opt,
                                 previous_messages, keys.integrity_key)
          IN  /\ args' = [seq_num |-> seq_num, cipher |-> cipher, key_size |-> key_size,
                          public_key |-> public_key, nonce |-> nonce, cbt_opt |-> cbt_opt,
                          previous_messages |-> previous_messages]
              /\ built' = r
              /\ inner0' = SrdAccept_write_inner_buffer(r.val)
    /\ kind' = "accept"
    /\ pc' = "built"
    /\ UNCHANGED <<feature, keys, wire, tampered, recvKind, recv, plain, resp>>

\* SrdDelegate::new(seq_num, srd_blob, ...): an error leaves no message
DelegateNew ==
    /\ pc = "start"
    /\ \E seq_num \in DelegateSeqNums, srd_blob \in Blobs,
          previous_messages \in Transcripts :
          LET r == SrdDelegate_new(seq_num, srd_blob, previous_messages,
                                   keys.integrity_key, keys.delegation_key, keys.iv)
          IN  /\ args' = [seq_num |-> seq_num, srd_blob |-> srd_blob,
                          previous_messages |-> previous_messages]
              /\ built' = r
              /\ inner0' = IF r.ok THEN SrdDelegate_write_inner_buffer(r.val) ELSE <<>>
              /\ pc' = IF r.ok THEN "built" ELSE "failed"
    /\ kind' = "delegate"
    /\ UNCHANGED <<feature, keys, wire, tampered, recvKind, recv, plain, resp>>

\* SrdPacket::set_mac on the built message
SetMac ==
    /\ pc = "built"
    /\ \E mac \in MacChoices :
          /\ built.val.mac # mac
          /\ built' = Ok(IF kind = "accept" THEN SrdAccept_set_mac(built.val, mac)
                         ELSE SrdDelegate_set_mac(built.val, mac))
    /\ UNCHANGED <<feature, keys, pc, kind, args, inner0, wire, tampered,
                   recvKind, recv, plain, resp>>

\* SrdMessage::write_to of the built message into an empty buffer
WriteTo ==
    /\ pc = "built"
    /\ wire' = IF kind = "accept" THEN SrdAccept_write_to(built.val)
               ELSE SrdDelegate_write_to(built.val)
    /\ pc' = "on_wire"
    /\ UNCHANGED <<feature, keys, kind, args, built, inner0, tampered,
                   recvKind, recv, plain, resp>>

\* one byte of the message is altered in flight
Tamper ==
    /\ pc = "on_wire"
    /\ ~tampered
    /\ \E pos \in (TamperPositions \cup {Len(wire)}), v \in TamperValues :
          /\ pos <= Len(wire)
          /\ wire[pos] # v
          /\ wire' = [wire EXCEPT ![pos] = v]
    /\ tampered' = TRUE
    /\ UNCHANGED <<feature, keys, pc, kind, args, built, inner0,
                   recvKind, recv, plain, resp>>

\* the lengths at which a message is cut short in flight
CutLengths(w) ==
    {0, 7, 11, 12, 15, 16, Len(w) - MacLen - 1, Len(w) - MacLen, Len(w) - 1}
        \cap (0..(Len(w) - 1))

\* only a strict prefix of the message arrives
Truncate ==
    /\ pc = "on_wire"
    /\ ~tampered
    /\ \E n \in CutLengths(wire) : wire' = SubSeq(wire, 1, n)
    /\ tampered' = TRUE
    /\ UNCHANGED <<feature, keys, pc, kind, args, built, inner0,
                   recvKind, recv, plain, resp>>

\* SrdAccept::read_from on the received bytes
AcceptReadFrom ==
    /\ pc = "on_wire"
    /\ recv' = SrdAccept_read_from(wire)
    /\ recvKind' = "accept"
    /\ pc' = "read"
    /\ UNCHANGED <<feature, keys, kind, args, built, inner0, wire, tampered, plain, resp>>

\* SrdDelegate::read_from on the received bytes
DelegateReadFrom ==
    /\ pc = "on_wire"
    /\ recv' = SrdDelegate_read_from(wire)
    /\ recvKind' = "delegate"
    /\ pc' = "read"
    /\ UNCHANGED <<feature, keys, kind, args, built, inner0, wire, tampered, plain, resp>>

\* SrdDelegate::get_data on the decoded message
GetData ==
    /\ pc = "read"
    /\ recvKind = "delegate"
    /\ recv.ok
    /\ plain' = SrdDelegate_get_data(recv.val, keys.delegation_key, keys.iv)
    /\ pc' = "done"
    /\ UNCHANGED <<feature, keys, kind, args, built, inner0, wire, tampered,
                   recvKind, recv, resp>>

\* the responder consumes the received bytes as the DELEGATE of the handshake
ResponderDelegate ==
    /\ pc = "on_wire"
    /\ resp' = responder_on_delegate(wire, args.previous_messages, keys.integrity_key,
                                     keys.delegation_key, keys.iv)
    /\ pc' = "responded"
    /\ UNCHANGED <<feature, keys, kind, args, built, inner0, wire, tampered,
                   recvKind, recv, plain>>

Next ==
    \/ AcceptNew
    \/ DelegateNew
    \/ SetMac
    \/ WriteTo
    \/ Tamper
    \/ Truncate
    \/ AcceptReadFrom
    \/ DelegateReadFrom
    \/ GetData
    \/ ResponderDelegate

Spec == Init /\ [][Next]_vars

TypeOK ==
    /\ feature \in Features
    /\ pc \in {"start", "built", "failed", "on_wire", "read", "done", "responded"}
    /\ kind \in {"none", "accept", "delegate"}
    /\ \A i \in 1..Len(wire) : wire[i] \in Byte
    /\ tampered \in BOOLEAN

\* ------------------------------------------------------------------ claims
AcceptBuilt == kind = "accept" /\ built.ok
DelegateBuilt == kind = "delegate" /\ built.ok
\* the bytes were decoded by the decoder of the message that was written
DecodedOwn == pc \in {"read", "done"} /\ recvKind = kind
AcceptDecoded == pc \in {"read", "done"} /\ recvKind = "accept" /\ recv.ok
DelegateDecoded == pc \in {"read", "done"} /\ recvKind = "delegate" /\ recv.ok

\* C1 (as stated): read_from applied to the bytes write_to produced succeeds and
\* returns the message that was written, for every message new built, whatever
\* the key_size and the public key.
C1_RoundTripAnyKey ==
    (DecodedOwn /\ ~tampered) => (recv.ok /\ recv.val = built.val)

\* C1 (amended): the round trip holds for every DELEGATE built by new and for
\* every ACCEPT built by new from a public key of at most key_size bytes; the
\* decoded message equals the written one in every field, MAC included.
C1_RoundTrip ==
    (DecodedOwn /\ ~tampered
        /\ (kind = "accept" => Len(args.public_key) <= args.key_size))
    => (recv.ok /\ recv.val = built.val /\ recv.val.mac = built.val.mac
        /\ Len(recv.val.mac) = MacLen)

C1_Witness ==
    /\ DecodedOwn /\ ~tampered /\ recv.ok
    /\ kind = "accept"
    /\ Len(args.public_key) < args.key_size
    /\ args.cbt_opt # NoCbt
    /\ recv.val = built.val

\* C2 (as stated): new pads a shorter public key on the left with zeros to
\* key_size/8 bytes, and read_from consumes key_size/8 bytes as the public key.
C2_PaddingBits ==
    /\ (AcceptBuilt /\ Len(args.public_key) < args.key_size \div 8)
        => (/\ Len(built.val.public_key) = args.key_size \div 8
            /\ built.val.public_key
                 = Fill((args.key_size \div 8) - Len(args.public_key), 0) \o args.public_key)
    /\ AcceptDecoded => Len(recv.val.public_key) = recv.val.key_size \div 8

\* C2 (amended): the width is key_size bytes.  new pads a public key shorter
\* than key_size bytes on the left with zeros to exactly key_size bytes, the
\* original bytes staying at the right end, and read_from consumes exactly
\* key_size bytes as the public key, key_size being the 16-bit field at
\* offset 12 of the buffer.
C2_Padding ==
    /\ (AcceptBuilt /\ Len(args.public_key) < args.key_size)
        => (/\ Len(built.val.public_key) = args.key_size
            /\ built.val.key_size = args.key_size
            /\ \A i \in 1..args.key_size :
                 built.val.public_key[i] =
                    IF i <= args.key_size - Len(args.public_key) THEN 0
                    ELSE args.public_key[i - (args.key_size - Len(args.public_key))])
    /\ AcceptDecoded
        => (/\ recv.val.key_size = wire[13] + 256 * wire[14]
            /\ Len(recv.val.public_key) = recv.val.key_size
            /\ \A i \in 1..recv.val.key_size : recv.val.public_key[i] = wire[16 + i]
            /\ recv.val.nonce = SubSeq(wire, 17 + recv.val.key_size,
                                       16 + recv.val.key_size + MacLen))

C2_Witness ==
    /\ AcceptDecoded /\ kind = "accept" /\ ~tampered
    /\ args.key_size = TestKeySize
    /\ Len(args.public_key) = 2
    /\ recv.val.public_key = built.val.public_key
    /\ recv.val.public_key[TestKeySize] = args.public_key[2]
    /\ recv.val.public_key[1] = 0

\* C3: read_from never returns a message whose signature is not the magic
\* 0x1C35F427 or whose packet type is outside 1..6; such buffers are rejected.
C3_IdentityChecked ==
    (pc \in {"read", "done"} /\ recv.ok)
    => (recv.val.signature = SRD_SIGNATURE /\ recv.val.packet_type \in 1..6)

\* C4: every ACCEPT returned by read_from and every ACCEPT built by new has
\* reserved = 0; a buffer with a non-zero reserved field is rejected.
C4_ReservedZero ==
    /\ AcceptBuilt => built.val.reserved = 0
    /\ AcceptDecoded => recv.val.reserved = 0

C6_SeqOrdinal ==
    /\ AcceptBuilt => built.val.seq_num = 2
    /\ DelegateBuilt => built.val.seq_num = 4
    /\ AcceptDecoded => recv.val.seq_num = 2
    /\ DelegateDecoded => recv.val.seq_num = 4

\* C6 (amended): a message built by new carries the seq_num its caller gave
\* (2 or 4 only when the caller passes the ordinal), read_from returns the
\* sequence byte at offset 5 of the buffer without checking it, and the byte
\* survives write_to followed by read_from.
C6_SeqAsGiven ==
    /\ (kind # "none" /\ built.ok) => built.val.seq_num = args.seq_num
    /\ (pc \in {"read", "done"} /\ recv.ok) => recv.val.seq_num = wire[6]
    /\ (DecodedOwn /\ ~tampered /\ recv.ok) => recv.val.seq_num = args.seq_num

C6_Witness ==
    /\ DelegateDecoded /\ kind = "delegate" /\ ~tampered
    /\ args.seq_num = 7
    /\ recv.val.seq_num = 7

\* C7: for the compiled cipher, decrypt_data(encrypt_data(p, key, iv), key, iv)
\* succeeds and equals p for every plaintext p of a valid length (a multiple of
\* 16 under AES-256-CBC, any length under XChaCha20); under XChaCha20
\* decrypt_data is the same operation as encrypt_data.
C7_CipherRoundTrip ==
    kind = "delegate" =>
      LET p == SrdBlob_write_to(args.srd_blob)
          valid == feature = "chacha20" \/ Len(p) % AesBlock = 0
          e == encrypt_data(p, keys.delegation_key, keys.iv)
      IN  /\ valid => (/\ e.ok
                       /\ built.ok
                       /\ built.val.encrypted_blob = e.val
                       /\ decrypt_data(built.val.encrypted_blob, keys.delegation_key, keys.iv)
                            = Ok(p))
          /\ feature = "chacha20" =>
                (/\ decrypt_data(p, keys.delegation_key, keys.iv) = e
                 /\ encrypt_data(e.val, keys.delegation_key, keys.iv) = Ok(p))
          /\ (pc = "done" /\ ~tampered /\ recvKind = "delegate")
                => plain = Ok(args.srd_blob)

C7_Witness ==
    /\ pc = "done" /\ kind = "delegate" /\ recvKind = "delegate" /\ ~tampered
    /\ feature = "aes"
    /\ Len(recv.val.encrypted_blob) = 2 * AesBlock
    /\ recv.val.encrypted_blob # SrdBlob_write_to(args.srd_blob)
    /\ plain = Ok(args.srd_blob)

\* C8: write_to produces the bytes of write_inner_buffer followed by the
\* 32-byte mac field; a message built by new has the MAC flag set; set_mac
\* changes the mac field only, so the inner bytes do not depend on the MAC.
C8_MacTrailer ==
    /\ (kind # "none" /\ built.ok) =>
          LET inner == IF kind = "accept" THEN SrdAccept_write_inner_buffer(built.val)
                       ELSE SrdDelegate_write_inner_buffer(built.val)
          IN  /\ inner = inner0
              /\ Len(built.val.mac) = MacLen
              /\ (built.val.flags \div SRD_FLAG_MAC) % 2 = 1
              /\ built.val.signature = SRD_SIGNATURE
              /\ built.val.seq_num = args.seq_num
    /\ (pc = "on_wire" /\ ~tampered) =>
          (/\ wire = inner0 \o built.val.mac
           /\ Len(wire) = Len(inner0) + MacLen
           /\ SubSeq(wire, 1, Len(inner0)) = inner0
           /\ SubSeq(wire, Len(inner0) + 1, Len(wire)) = built.val.mac)

C8_Witness ==
    /\ pc = "on_wire" /\ ~tampered /\ kind = "accept"
    /\ built.val.mac \in MacChoices
    /\ SubSeq(wire, Len(wire) - MacLen + 1, Len(wire)) = built.val.mac
    /\ SubSeq(wire, 1, Len(wire) - MacLen) = inner0

\* C9: the size field of a DELEGATE built by new or returned by read_from is
\* the byte length of encrypted_blob, and for a built message that length is
\* the length of the serialized plaintext blob given to the cipher.
C9_SizeField ==
    /\ DelegateBuilt =>
          (/\ built.val.size = Len(built.val.encrypted_blob)
           /\ built.val.size = Len(SrdBlob_write_to(args.srd_blob)))
    /\ DelegateDecoded =>
          (/\ recv.val.size = Len(recv.val.encrypted_blob)
           /\ recv.val.size = wire[9] + 256 * wire[10] + 65536 * wire[11]
                                + 16777216 * wire[12]
           /\ recv.val.encrypted_blob = SubSeq(wire, 13, 12 + recv.val.size))

C9_Witness ==
    /\ DelegateDecoded /\ kind = "delegate" /\ tampered
    /\ recv.val.size # built.val.size
    /\ recv.val.size > 0
    /\ recv.val.size = Len(recv.val.encrypted_blob)

\* C10 (as stated): under AES-256-CBC an input whose length is no multiple of
\* 16 makes encrypt_data and decrypt_data return the Malformed error, new then
\* returning it without a message and get_data without a blob.
C10_LengthMalformed ==
    /\ (feature = "aes" /\ kind = "delegate"
          /\ Len(SrdBlob_write_to(args.srd_blob)) % AesBlock # 0)
        => (built = Err("Malformed") /\ pc = "failed")
    /\ (feature = "aes" /\ pc = "done" /\ Len(recv.val.encrypted_blob) % AesBlock # 0)
        => plain = Err("Malformed")

\* C10 (amended): the error is InvalidDataLength.  Under AES-256-CBC
\* encrypt_data and decrypt_data return it for every input whose length is no
\* multiple of 16; new then returns it and builds no DELEGATE, and get_data
\* returns it and yields no blob.
C10_LengthError ==
    /\ (feature = "aes" /\ kind = "delegate"
          /\ Len(SrdBlob_write_to(args.srd_blob)) % AesBlock # 0)
        => (/\ encrypt_data(SrdBlob_write_to(args.srd_blob), keys.delegation_key, keys.iv)
                 = Err("InvalidDataLength")
            /\ built = Err("InvalidDataLength")
            /\ pc = "failed"
            /\ wire = <<>> /\ inner0 = <<>>)
    /\ (feature = "aes" /\ pc = "done" /\ Len(recv.val.encrypted_blob) % AesBlock # 0)
        => (/\ decrypt_data(recv.val.encrypted_blob, keys.delegation_key, keys.iv)
                 = Err("InvalidDataLength")
            /\ plain = Err("InvalidDataLength"))
    /\ (feature = "aes" /\ DelegateBuilt) => Len(built.val.encrypted_blob) % AesBlock = 0

C10_Witness ==
    /\ feature = "aes" /\ pc = "done" /\ kind = "delegate"
    /\ Len(recv.val.encrypted_blob) % AesBlock # 0
    /\ plain = Err("InvalidDataLength")

C10_WitnessNew ==
    /\ feature = "aes" /\ pc = "failed" /\ kind = "delegate"
    /\ built = Err("InvalidDataLength")

\* the length the header of an ACCEPT buffer declares: 16 + key_size + 96
AcceptDeclaredLen(w) == 16 + (w[13] + 256 * w[14]) + 3 * MacLen

\* the length the header of a DELEGATE buffer declares: 12 + size + 32
DelegateDeclaredLen(w) ==
    12 + (w[9] + 256 * w[10] + 65536 * w[11] + 16777216 * w[12]) + MacLen

AcceptTooShort(w) == Len(w) < 16 \/ Len(w) < AcceptDeclaredLen(w)
DelegateTooShort(w) == Len(w) < 12 \/ Len(w) < DelegateDeclaredLen(w)

\* C11: read_from fails, returning no message, for every buffer shorter than
\* the length its own header declares (DELEGATE 12 + size + 32 bytes, ACCEPT
\* 16 + key_size + 96 bytes), every strict prefix of a valid encoding included;
\* a message it returns is made of the bytes of the buffer only.
C11_TruncatedFails ==
    /\ pc # "start" =>
          (/\ AcceptTooShort(wire) => ~SrdAccept_read_from(wire).ok
           /\ DelegateTooShort(wire) => ~SrdDelegate_read_from(wire).ok)
    /\ (pc = "on_wire" /\ ~tampered /\ kind = "delegate") =>
          \A n \in 0..(Len(wire) - 1) : ~SrdDelegate_read_from(SubSeq(wire, 1, n)).ok
    /\ (pc = "on_wire" /\ ~tampered /\ kind = "accept"
          /\ Len(args.public_key) <= args.key_size) =>
          \A n \in 0..(Len(wire) - 1) : ~SrdAccept_read_from(SubSeq(wire, 1, n)).ok
    /\ (pc \in {"read", "done"} /\ recvKind = "accept") =>
          (/\ AcceptTooShort(wire) => (~recv.ok /\ recv = Err("Io"))
           /\ recv.ok => (/\ AcceptDeclaredLen(wire) <= Len(wire)
                          /\ SrdAccept_write_to(recv.val)
                               = SubSeq(wire, 1, AcceptDeclaredLen(wire))))
    /\ (pc \in {"read", "done"} /\ recvKind = "delegate") =>
          (/\ DelegateTooShort(wire) => (~recv.ok /\ recv = Err("Io"))
           /\ recv.ok => (/\ DelegateDeclaredLen(wire) <= Len(wire)
                          /\ SrdDelegate_write_to(recv.val)
                               = SubSeq(wire, 1, DelegateDeclaredLen(wire))))
    /\ (pc = "done" /\ ~recv.ok) => plain = None

\* a DELEGATE that lost the last byte of its MAC trailer is refused
C11_Witness ==
    /\ pc = "read" /\ kind = "delegate" /\ recvKind = "delegate"
    /\ tampered
    /\ Len(wire) = Len(SrdDelegate_write_to(built.val)) - 1
    /\ Len(wire) = DelegateDeclaredLen(wire) - 1
    /\ built.val.size > 0
    /\ recv = Err("Io")

====
